---------------------------- MODULE Spec2Model ----------------------------
(***************************************************************************)
(* A model of BAC0/core/devices/Device.py: the Device class of BAC0.       *)
(*                                                                         *)
(*   - construction and point discovery (__init__, _buildPointList,        *)
(*     _discoverPoints),                                                   *)
(*   - batched reads (read_multiple, its _batches generator, _findPoint),  *)
(*   - the polling lifecycle (poll) and the DevicePoll task it drives.     *)
(*                                                                         *)
(* Python strings that the code inspects character by character (the `in`  *)
(* substring tests of _discoverPoints, str(command).lower() of poll) are   *)
(* modelled by their characters: Chars maps a token to its sequence of     *)
(* characters, and the tests are computed on those sequences.              *)
(***************************************************************************)
EXTENDS Integers, Sequences, FiniteSets, TLC

(***************************************************************************)
(* Bounds of the model.                                                    *)
(***************************************************************************)
MaxInv == 2        \* longest object inventory a controller reports
MaxList == 3       \* longest point_list passed to read_multiple
MaxBatch == 2      \* largest points_per_request passed to read_multiple
MaxHist == 3       \* values the read_multiple calls of a run may ask for
MaxTasks == 2      \* DevicePoll objects created per run
MaxTicks == 2      \* ticks of the poll tasks per run
MaxDelay == 2      \* largest delay passed to poll

(***************************************************************************)
(* Python values and strings.                                              *)
(***************************************************************************)
Chars == [
    file |-> <<"f","i","l","e">>,
    calendar |-> <<"c","a","l","e","n","d","a","r">>,
    device |-> <<"d","e","v","i","c","e">>,
    schedule |-> <<"s","c","h","e","d","u","l","e">>,
    notificationClass |-> <<"n","o","t","i","f","i","c","a","t","i","o","n","C","l","a","s","s">>,
    eventLog |-> <<"e","v","e","n","t","L","o","g">>,
    trendLog |-> <<"t","r","e","n","d","L","o","g">>,
    loop |-> <<"l","o","o","p">>,
    program |-> <<"p","r","o","g","r","a","m">>,
    eventEnrollment |-> <<"e","v","e","n","t","E","n","r","o","l","l","m","e","n","t">>,
    analogInput |-> <<"a","n","a","l","o","g","I","n","p","u","t">>,
    binaryValue |-> <<"b","i","n","a","r","y","V","a","l","u","e">>,
    multiStateInput |-> <<"m","u","l","t","i","S","t","a","t","e","I","n","p","u","t">>,
    event |-> <<"e","v","e","n","t">>,
    binary |-> <<"b","i","n","a","r","y">>,
    multiState |-> <<"m","u","l","t","i","S","t","a","t","e">>,
    None |-> <<"N","o","n","e">>,
    False |-> <<"F","a","l","s","e">>,
    True |-> <<"T","r","u","e">>,
    stop |-> <<"s","t","o","p">>,
    STOP |-> <<"S","T","O","P">>,
    Stop |-> <<"S","t","o","p">>,
    sToP |-> <<"s","T","o","P">>,
    start |-> <<"s","t","a","r","t">>,
    d0 |-> <<"0">>,
    d1 |-> <<"1">>,
    d3 |-> <<"3">> ]

\* A Python value: a str (s names its token in Chars), an int, a bool or None.
PyStr(s) == [k |-> "str", s |-> s, n |-> 0]
PyInt(n) == [k |-> "int", s |-> "", n |-> n]
PyBool(b) == [k |-> "bool", s |-> "", n |-> IF b THEN 1 ELSE 0]
PyNone == [k |-> "none", s |-> "", n |-> 0]

\* str(v): the characters Python's str() yields for v.
Str(v) ==
    CASE v.k = "str" -> Chars[v.s]
      [] v.k = "int" -> IF v.n = 0 THEN Chars.d0 ELSE IF v.n = 1 THEN Chars.d1 ELSE Chars.d3
      [] v.k = "bool" -> IF v.n = 1 THEN Chars.True ELSE Chars.False
      [] OTHER -> Chars.None

\* `a in b` of two Python strings: a is a substring of b.
Contains(b, a) ==
    \E i \in 1..(Len(b) - Len(a) + 1) : SubSeq(b, i, i + Len(a) - 1) = a

SP == <<" ">>

\* The string literal of the filter at line 430.
InfraString ==
    Chars.file \o SP \o Chars.calendar \o SP \o Chars.device \o SP \o
    Chars.schedule \o SP \o Chars.notificationClass \o SP \o Chars.eventLog \o SP \o
    Chars.trendLog \o SP \o Chars.loop \o SP \o Chars.program \o SP \o
    Chars.eventEnrollment

(***************************************************************************)
(* State.                                                                  *)
(***************************************************************************)
VARIABLES
    pc,          \* where the construction of the Device stands
    err,         \* the exception that left the constructor ("" when none)
    panda,       \* _PANDA: whether `import pandas` succeeded
    name,        \* self.name
    points,      \* self.points: the Point objects, each with its history
    pointsDF,    \* self._pointsDF: the rows indexed by pointName
    disc,        \* the locals of _discoverPoints
    netlog,      \* the requests discovery has sent on self.network
    task,        \* self._polling_task.task: 0 for None, else a DevicePoll
    running,     \* self._polling_task.running
    tasks,       \* the DevicePoll objects created so far
    pollpc,      \* each caller's position inside poll()
    rm,          \* each context's activation of read_multiple
    cycles,      \* read cycles started by poll ticks
    skipped,     \* ticks skipped because a cycle was still active
    lastStart,   \* delay of the most recent start command (0: none yet)
    look         \* the user's last lookup, read, iteration or len call

vars == <<pc, err, panda, name, points, pointsDF, disc, netlog, task, running,
          tasks, pollpc, rm, cycles, skipped, lastStart, look>>

pollVars == <<task, running, tasks, pollpc, cycles, skipped, lastStart>>
discVars == <<pc, err, panda, name, pointsDF, disc, netlog>>


(***************************************************************************)
(* Inputs: what the controller and the network may answer.                 *)
(***************************************************************************)
\* The ten infrastructure types the filter of line 430 names.
InfraTypes ==
    {"file", "calendar", "device", "schedule", "notificationClass", "eventLog",
     "trendLog", "loop", "program", "eventEnrollment"}

\* Type tokens a controller reports in its objectList: symbolic names, an
\* integer (a proprietary type) or None.
TypeTokens == InfraTypes \cup {"analogInput", "binaryValue", "multiStateInput", "event"}
TypeVals == {PyStr(t) : t \in TypeTokens} \cup {PyNone, PyInt(3)}

\* objectName values the controller reports.
Names == {"a", "b"}

\* Object inventories: the objectList property, (pointType, pointAddr) pairs.
Inventories ==
    UNION {{[i \in 1..n |-> [pointType |-> f[i], pointAddr |-> i]] :
            f \in [1..n -> TypeVals]} : n \in 0..MaxInv}

DeviceObj == [pointType |-> PyStr("device"), pointAddr |-> 0]

\* A request sent on the network capability.
Request(fn, obj, props) ==
    [fn |-> fn, pointType |-> obj.pointType, pointAddr |-> obj.pointAddr, props |-> props]

(***************************************************************************)
(* Point objects (BAC0/core/devices/Points.py).                            *)
(***************************************************************************)
\* NumericPoint(...), BooleanPoint(...), EnumPoint(...): a Point with its
\* properties, the value discovery read and an empty history.
NewPoint(cls, newLine) ==
    [family |-> cls, type |-> newLine.pointType, address |-> newLine.pointAddr,
     name |-> newLine.pointName, value |-> newLine.presentValue, history |-> <<>>]

\* Point._trend(value): append the value to the history.
Trend(point, value) == [point EXCEPT !.history = Append(@, value)]

\* Point.value: one single-point read of presentValue; the reading becomes
\* the cached value and the history is left alone.
PointValueRequest(point) ==
    [fn |-> "read", pointType |-> point.type, pointAddr |-> point.address,
     props |-> <<"presentValue">>]
PointValue(point, reading) == [point EXCEPT !.value = reading]

(***************************************************************************)
(* Device.__init__                                                         *)
(***************************************************************************)
\* unreachable records that the read of protocolServicesSupported raised.
NoDisc == [deviceName |-> "", objList |-> <<>>, i |-> 1, result |-> <<>>, points |-> <<>>,
           unreachable |-> FALSE]

Callers == {1, 2}
TaskIds == 1..MaxTasks
Ctxs == {0} \cup TaskIds     \* 0: the user's thread; t: the thread of DevicePoll t

\* An activation of poll: its position, its delay argument, the exception
\* that ended the last call, and a record of the handle, the flag and the
\* calls made on each DevicePoll object as they stood when the call began.
NoEntry == [task |-> 0, running |-> FALSE, tasks |-> <<>>]
IdlePoll == [pc |-> "idle", delay |-> 0, err |-> "", entry |-> NoEntry]
\* An activation of read_multiple: its arguments (list, ppr), the number k of
\* the batch the loop of line 135 is at, the points resolved for that batch,
\* and a record of the call: the readMultiple requests sent, the responses
\* received, the single-point reads made while resolving names, the
\* histories when the call began (before) and when its latest request was
\* sent (sent), the exception that ended it.
IdleRM == [pc |-> "idle", list |-> <<>>, ppr |-> 1, k |-> 1, pts |-> <<>>,
           reqs |-> <<>>, resps |-> <<>>, singles |-> <<>>, before |-> <<>>,
           sent |-> <<>>, err |-> "", missing |-> ""]
\* A DevicePoll object: whether it was created, started or stopped, its
\* delay, how often start() and stop() were called on it, whether a read
\* cycle of it is active, and whether an uncaught error ended its ticking.
NoTask == [state |-> "none", delay |-> 0, starts |-> 0, stops |-> 0, cycle |-> FALSE,
           crashed |-> FALSE]

\* A call of the user on the facade (device[name], read, iteration, len):
\* the operation, its argument, what it returned (result: a position in
\* self.points, a value, a count or the positions iterated), the exception
\* it raised and the requests it sent on the network; seen lists the
\* positions an iteration yielded.
NoLook == [op |-> "none", arg |-> "", result |-> 0, seen |-> <<>>, err |-> "",
           reqs |-> <<>>]

\* The state before Device(address, device_id, network) is evaluated: the
\* object has no attribute yet (task = -1 stands for the missing handle).
InitNew ==
    /\ pc = "new"
    /\ err = ""
    /\ panda \in BOOLEAN
    /\ name = ""
    /\ points = <<>>
    /\ pointsDF = <<>>
    /\ task = -1
    /\ running = FALSE
    /\ disc = NoDisc
    /\ netlog = <<>>
    /\ tasks = [t \in TaskIds |-> NoTask]
    /\ pollpc = [c \in Callers |-> IdlePoll]
    /\ rm = [x \in Ctxs |-> IdleRM]
    /\ cycles = 0
    /\ skipped = 0
    /\ lastStart = 0
    /\ look = NoLook

\* Lines 43-57: pd.DataFrame() at line 47 needs the pandas import to have
\* succeeded; without it the name pd is unbound and the constructor raises.
Construct ==
    /\ pc = "new"
    /\ IF panda
         THEN /\ pc' = "L412"
              /\ task' = 0
              /\ running' = FALSE
              /\ err' = err
         ELSE /\ pc' = "raised"
              /\ err' = "NameError"
              /\ UNCHANGED <<task, running>>
    /\ UNCHANGED <<panda, name, points, pointsDF, disc, netlog, rm, look>>
    /\ UNCHANGED <<tasks, pollpc, cycles, skipped, lastStart>>

(***************************************************************************)
(* Device._discoverPoints and Device._buildPointList                       *)
(***************************************************************************)
\* Lines 411-417 (and 76-79 on the recovered path): the read of
\* protocolServicesSupported. NoResponseFromController is caught: discovery
\* returns ('Not Found', '', [], [], []) and _buildPointList stores it.
\* A variant in which NoResponseFromController is not caught at line 415.
DiscoverPssNoCatch(ok) ==
    /\ pc = "L412"
    /\ netlog' = Append(netlog, Request("read", DeviceObj, <<"protocolServicesSupported">>))
    /\ IF ok
         THEN /\ pc' = "L418"
              /\ UNCHANGED <<err, disc>>
         ELSE /\ pc' = "raised"
              /\ err' = "NoResponseFromController"
              /\ disc' = [disc EXCEPT !.unreachable = TRUE]
    /\ UNCHANGED <<name, points, pointsDF, panda, rm, look>>
    /\ UNCHANGED pollVars

DiscoverPssBody(ok) ==
    /\ pc = "L412"
    /\ netlog' = Append(netlog, Request("read", DeviceObj, <<"protocolServicesSupported">>))
    /\ IF ok
         THEN /\ pc' = "L418"
              /\ UNCHANGED <<name, points, pointsDF, disc>>
         ELSE /\ pc' = "ready"
              /\ name' = "Not Found"
              /\ pointsDF' = <<>>
              /\ points' = <<>>
              /\ disc' = [disc EXCEPT !.unreachable = TRUE]
    /\ UNCHANGED <<err, panda, rm, look>>
    /\ UNCHANGED pollVars

DiscoverPss == \E ok \in BOOLEAN : DiscoverPssBody(ok)

\* Lines 418-421: the read of objectName; a failure here is not caught.
DiscoverName ==
    /\ pc = "L418"
    /\ netlog' = Append(netlog, Request("read", DeviceObj, <<"objectName">>))
    /\ \E ok \in BOOLEAN :
         IF ok
           THEN /\ pc' = "L422"
                /\ disc' = [disc EXCEPT !.deviceName = "dev"]
                /\ err' = err
           ELSE /\ pc' = "raised"
                /\ err' = "NoResponseFromController"
                /\ disc' = disc
    /\ UNCHANGED <<panda, name, points, pointsDF, rm, look>>
    /\ UNCHANGED pollVars

\* Lines 422-427: the read of objectList; a failure here is not caught.
DiscoverObjList(invs) ==
    /\ pc = "L422"
    /\ netlog' = Append(netlog, Request("read", DeviceObj, <<"objectList">>))
    /\ \/ \E inv \in invs :
            /\ pc' = "L429"
            /\ disc' = [disc EXCEPT !.objList = inv, !.i = 1, !.result = <<>>, !.points = <<>>]
            /\ err' = err
       \/ /\ pc' = "raised"
          /\ err' = "NoResponseFromController"
          /\ disc' = disc
    /\ UNCHANGED <<panda, name, points, pointsDF, rm, look>>
    /\ UNCHANGED pollVars

\* Lines 430-431: the filter an inventory entry must pass to become a Point.
Kept(pointType) ==
    /\ ~Contains(InfraString, Str(pointType))
    /\ pointType.k # "int"
    /\ pointType.k # "none"

\* A variant in which the binary and multiState branches are exchanged.
PointClassSwapped(pointType) ==
    IF ~Contains(Str(pointType), Chars.binary) /\ ~Contains(Str(pointType), Chars.multiState)
      THEN "Numeric"
      ELSE IF Contains(Str(pointType), Chars.binary)
             THEN "Enum"
             ELSE "Boolean"

\* Lines 432-433, 448, 465: the Point class chosen for a kept entry.
PointClass(pointType) ==
    IF ~Contains(Str(pointType), Chars.binary) /\ ~Contains(Str(pointType), Chars.multiState)
      THEN "Numeric"
      ELSE IF Contains(Str(pointType), Chars.binary)
             THEN "Boolean"
             ELSE "Enum"

\* Lines 437, 452, 469: the properties read for a kept entry.
PointProps(pointType) ==
    IF PointClass(pointType) = "Numeric"
      THEN <<"objectName", "description", "presentValue", "units">>
      ELSE IF PointClass(pointType) = "Boolean"
             THEN <<"objectName", "description", "presentValue", "inactiveText", "activeText">>
             ELSE <<"objectName", "description", "presentValue", "stateText">>

\* Lines 429-480: one iteration of the loop over objList.
DiscoverEntry(names) ==
    /\ pc = "L429"
    /\ disc.i <= Len(disc.objList)
    /\ LET e == disc.objList[disc.i] IN
         IF Kept(e.pointType)
           THEN /\ netlog' = Append(netlog, Request("readMultiple", e, PointProps(e.pointType)))
                /\ \/ \E nm \in names :
                        LET newLine == [pointType |-> e.pointType, pointAddr |-> e.pointAddr,
                                        pointName |-> nm, presentValue |-> 0]
                        IN /\ disc' = [disc EXCEPT
                                         !.i = @ + 1,
                                         !.points = Append(@, NewPoint(PointClass(e.pointType), newLine)),
                                         !.result = Append(@, newLine)]
                           /\ pc' = pc
                           /\ err' = err
                   \/ /\ pc' = "raised"
                      /\ err' = "NoResponseFromController"
                      /\ disc' = disc
           ELSE /\ disc' = [disc EXCEPT !.i = @ + 1]
                /\ UNCHANGED <<netlog, pc, err>>
    /\ UNCHANGED <<panda, name, points, pointsDF, rm, look>>
    /\ UNCHANGED pollVars

\* A variant of lines 482-496 whose index keeps one row per name, the first.
DiscoverFinishDict ==
    /\ pc = "L429"
    /\ disc.i > Len(disc.objList)
    /\ pointsDF' = SelectSeq(disc.result,
                             LAMBDA row : \A j \in 1..Len(disc.result) :
                                 disc.result[j].pointName = row.pointName
                                 => disc.result[j].pointAddr >= row.pointAddr)
    /\ name' = disc.deviceName
    /\ points' = disc.points
    /\ pc' = "ready"
    /\ UNCHANGED <<err, panda, disc, netlog, rm, look>>
    /\ UNCHANGED pollVars

\* Lines 482-496 and 76-79: the rows become the table indexed by pointName,
\* and _buildPointList stores the table, the name and the points.
DiscoverFinish ==
    /\ pc = "L429"
    /\ disc.i > Len(disc.objList)
    /\ pointsDF' = disc.result
    /\ name' = disc.deviceName
    /\ points' = disc.points
    /\ pc' = "ready"
    /\ UNCHANGED <<err, panda, disc, netlog, rm, look>>
    /\ UNCHANGED pollVars

NextDiscover ==
    \/ Construct
    \/ DiscoverPss
    \/ DiscoverName
    \/ DiscoverObjList(Inventories)
    \/ DiscoverEntry(Names)
    \/ DiscoverFinish

SpecDiscover == InitNew /\ [][NextDiscover]_vars

(***************************************************************************)
(* Device._findPoint and Device.read_multiple                              *)
(***************************************************************************)
Min(a, b) == IF a < b THEN a ELSE b

\* request[lo:hi] of Python, for 0 <= lo.
Slice(s, lo, hi) == SubSeq(s, lo + 1, Min(hi, Len(s)))

\* range(0, stop, step) of Python, as a sequence.
Range(stop, step) ==
    LET S == {i \in 0..(stop - 1) : i % step = 0}
    IN [k \in 1..Cardinality(S) |-> (k - 1) * step]

\* A variant of _batches that slices one name short: request[i:i + n - 1].
BatchesShort(request, points_per_request) ==
    LET starts == Range(Len(request), points_per_request)
    IN [k \in 1..Len(starts) |->
          Slice(request, starts[k], starts[k] + points_per_request - 1)]

\* Lines 123-133: _batches, the batches the generator yields, in order.
Batches(request, points_per_request) ==
    LET starts == Range(Len(request), points_per_request)
    IN [k \in 1..Len(starts) |->
          Slice(request, starts[k], starts[k] + points_per_request)]

\* A variant of _findPoint in which the loop does not return at the first
\* match: the last point with the name wins.
FindPointLast(nm) ==
    LET S == {i \in 1..Len(points) : points[i].name = nm}
    IN IF S = {} THEN 0 ELSE CHOOSE i \in S : \A j \in S : i >= j

\* Lines 510-515 of _findPoint: the first point of self.points with the name
\* (its position in self.points), or 0 where the code raises ValueError.
FindPoint(nm) ==
    LET S == {i \in 1..Len(points) : points[i].name = nm}
    IN IF S = {} THEN 0 ELSE CHOOSE i \in S : \A j \in S : i <= j

\* Lines 512-513 of _findPoint: the single-point reads the lookup of the
\* point at position i makes: one (point.value) when force_read is true and
\* the point exists, none otherwise.
ForcedReads(i, force_read) ==
    IF force_read /\ i # 0 THEN <<PointValueRequest(points[i])>> ELSE <<>>

\* What a single-point read of the network may return.
Readings == {1}

\* Lines 139-141: the names of a batch are resolved in order, from name j on,
\* until one is not found; Resolved lists the positions found, ResolveReads
\* the single-point reads made on the way.
RECURSIVE Resolved(_, _)
Resolved(batch, j) ==
    IF j > Len(batch) \/ FindPoint(batch[j]) = 0
      THEN <<>>
      ELSE <<FindPoint(batch[j])>> \o Resolved(batch, j + 1)

RECURSIVE ResolveReads(_, _, _)
ResolveReads(batch, force_read, j) ==
    IF j > Len(batch) \/ FindPoint(batch[j]) = 0
      THEN <<>>
      ELSE ForcedReads(FindPoint(batch[j]), force_read)
           \o ResolveReads(batch, force_read, j + 1)

\* A variant of lines 153-155 that pairs the points with the values from the
\* end of the response.
RECURSIVE ZipTrendReversed(_, _, _, _)
ZipTrendReversed(P, pts, val, j) ==
    IF j > Len(pts) \/ j > Len(val)
      THEN P
      ELSE ZipTrendReversed([P EXCEPT ![pts[j]] = Trend(@, val[Len(val) + 1 - j])],
                            pts, val, j + 1)

\* Lines 153-155: zip(points, val), then each[0]._trend(each[1]) in order,
\* from pair j on. P is self.points, pts the positions of the batch's points.
RECURSIVE ZipTrend(_, _, _, _)
ZipTrend(P, pts, val, j) ==
    IF j > Len(pts) \/ j > Len(val)
      THEN P
      ELSE ZipTrend([P EXCEPT ![pts[j]] = Trend(@, val[j])], pts, val, j + 1)

\* The value a controller reports at position j of its answer to the k-th
\* request of a call. The code never inspects a value, so the answers are
\* told apart by values that are all different: Value(k, j) names the request
\* and the position it came from.
Value(k, j) == k * (MaxList + 2) + j

\* What network.readMultiple may return for the k-th request, of n points:
\* fewer values than points, one per point, or one more.
Responses(k, n) == {[j \in 1..m |-> Value(k, j)] : m \in 0..(n + 1)}

Histories == [i \in 1..Len(points) |-> points[i].history]

\* Line 106: read_multiple(point_list, points_per_request) is entered.
ReadMultipleCall(x, point_list, points_per_request) ==
    /\ pc = "ready"
    /\ rm[x].pc = "idle"
    /\ rm' = [rm EXCEPT ![x] =
                [IdleRM EXCEPT !.pc = "L135", !.list = point_list,
                               !.ppr = points_per_request, !.before = Histories]]

\* A variant of lines 135-149 in which a name that is not found is left out
\* of the batch instead of ending the call.
ReadBatchSkipUnknown(x) ==
    /\ rm[x].pc = "L135"
    /\ rm[x].k <= Len(Batches(rm[x].list, rm[x].ppr))
    /\ LET batch == Batches(rm[x].list, rm[x].ppr)[rm[x].k]
           known == SelectSeq(batch, LAMBDA nm : FindPoint(nm) # 0)
           found == [j \in 1..Len(known) |-> FindPoint(known[j])]
       IN rm' = [rm EXCEPT ![x].pc = "L149", ![x].pts = found, ![x].sent = Histories,
                           ![x].reqs = Append(@, [names |-> batch, items |-> <<>>])]
    /\ UNCHANGED points

\* Lines 135-149: the loop takes the next batch, resolves each of its names
\* with _findPoint(each, force_read), which raises ValueError for the first
\* name that is not found and, when force_read is true, refreshes the value
\* of each point it finds; then the request is built and sent.
ReadBatchWith(x, force_read) ==
    /\ rm[x].pc = "L135"
    /\ rm[x].k <= Len(Batches(rm[x].list, rm[x].ppr))
    /\ LET batch == Batches(rm[x].list, rm[x].ppr)[rm[x].k]
           found == [j \in 1..Len(batch) |-> FindPoint(batch[j])]
           bad == {j \in 1..Len(batch) : found[j] = 0}
           reads == ResolveReads(batch, force_read, 1)
           hit == Resolved(batch, 1)
       IN /\ IF bad # {}
               THEN rm' = [rm EXCEPT ![x].pc = "raised", ![x].err = "ValueError",
                             ![x].singles = @ \o reads,
                             ![x].missing = batch[CHOOSE j \in bad : \A h \in bad : j <= h]]
               ELSE rm' = [rm EXCEPT
                             ![x].pc = "L149",
                             ![x].pts = found,
                             ![x].singles = @ \o reads,
                             ![x].sent = Histories,
                             ![x].reqs = Append(@,
                                [names |-> batch,
                                 items |-> [j \in 1..Len(batch) |->
                                              [type |-> points[found[j]].type,
                                               address |-> points[found[j]].address,
                                               prop |-> "presentValue"]]])]
          /\ IF force_read
               THEN \E reading \in Readings :
                      points' = [i \in 1..Len(points) |->
                                   IF \E j \in 1..Len(hit) : hit[j] = i
                                     THEN PointValue(points[i], reading)
                                     ELSE points[i]]
               ELSE points' = points

\* A variant of line 140 that leaves force_read at its default, True.
ReadBatchForced(x) == ReadBatchWith(x, TRUE)

\* Line 140: read_multiple resolves with force_read=False.
ReadBatch(x) == ReadBatchWith(x, FALSE)

\* Line 135: the generator is exhausted and read_multiple returns.
ReadReturn(x) ==
    /\ rm[x].pc = "L135"
    /\ rm[x].k > Len(Batches(rm[x].list, rm[x].ppr))
    /\ rm' = [rm EXCEPT ![x].pc = "done"]
    /\ UNCHANGED points

\* read_multiple has returned or raised: its activation is gone.
ReadExit(x) ==
    /\ rm[x].pc \in {"done", "raised"}
    /\ rm' = [rm EXCEPT ![x] = IdleRM]
    /\ UNCHANGED points

\* Lines 149 and 153-155: network.readMultiple returns the sequence val,
\* which is zipped with the batch's points and trended.
ReadAnswered(x, val) ==
    /\ rm[x].pc = "L149"
    /\ points' = ZipTrend(points, rm[x].pts, val, 1)
    /\ rm' = [rm EXCEPT ![x].pc = "L135", ![x].k = @ + 1, ![x].resps = Append(@, val)]

\* Lines 148-151: network.readMultiple raises: KeyError becomes
\* Exception('Unknown point name'), NoResponseFromController propagates.
ReadRaised(x, e) ==
    /\ rm[x].pc = "L149"
    /\ rm' = [rm EXCEPT ![x].pc = "raised", ![x].err = e]
    /\ UNCHANGED points

\* Lines 148-155: what the network may do with the request of a batch.
ReadResponse(x) ==
    \/ \E val \in Responses(rm[x].k, Len(rm[x].pts)) : ReadAnswered(x, val)
    \/ \E e \in {"Exception", "NoResponseFromController"} : ReadRaised(x, e)

\* point_list arguments: names of the catalog and a name that is in none.
ListNames == Names \cup {"z"}
Lists == UNION {[1..n -> ListNames] : n \in 0..MaxList}

TotalHistory == LET h == Histories IN
    IF Len(h) = 0 THEN 0
    ELSE IF Len(h) = 1 THEN Len(h[1])
    ELSE Len(h[1]) + Len(h[2])

\* The inventory of the device the read specification talks to.
ReadInventory ==
    <<[pointType |-> PyStr("analogInput"), pointAddr |-> 1],
      [pointType |-> PyStr("binaryValue"), pointAddr |-> 2]>>

\* A call of read_multiple by the user.
UserRead ==
    \E point_list \in Lists, ppr \in 1..MaxBatch :
        /\ TotalHistory + Len(point_list) <= MaxHist
        /\ ReadMultipleCall(0, point_list, ppr)
        /\ UNCHANGED <<points, discVars, look>>
        /\ UNCHANGED pollVars

UserReadBatch == ReadBatch(0) /\ UNCHANGED <<discVars, pollVars, look>>
UserReadReturn == ReadReturn(0) /\ UNCHANGED <<discVars, pollVars, look>>
UserReadResponse == ReadResponse(0) /\ UNCHANGED <<discVars, pollVars, look>>
UserReadExit == ReadExit(0) /\ UNCHANGED <<discVars, pollVars, look>>

NextRead ==
    \/ Construct
    \/ DiscoverPss
    \/ DiscoverName
    \/ DiscoverObjList({ReadInventory})
    \/ DiscoverEntry(Names)
    \/ DiscoverFinish
    \/ UserRead
    \/ UserReadBatch
    \/ UserReadReturn
    \/ UserReadResponse
    \/ UserReadExit

SpecRead == InitNew /\ [][NextRead]_vars

(***************************************************************************)
(* Properties of read_multiple, stated of the user's call.                 *)
(***************************************************************************)
CeilDiv(n, b) == (n + b - 1) \div b

RECURSIVE Flatten(_)
Flatten(ss) == IF ss = <<>> THEN <<>> ELSE Head(ss) \o Flatten(Tail(ss))

\* The names of the requests the call has sent so far, request by request.
Chunks(r) == [j \in 1..Len(r.reqs) |-> r.reqs[j].names]

\* C4: the list of n names is split into ceil(n/b) contiguous chunks that
\* concatenate back to the list in order; every chunk but the last has b
\* names, the last has between 1 and b; one request is sent per chunk and an
\* empty list sends none.
C4_ChunksPartitionList ==
    LET r == rm[0]
        n == Len(r.list)
        b == r.ppr
        ch == Chunks(r)
    IN r.pc # "idle" =>
         /\ Len(ch) <= CeilDiv(n, b)
         /\ \A j \in 1..Len(ch) :
              /\ ch[j] = SubSeq(r.list, (j - 1) * b + 1, Min(j * b, n))
              /\ j < CeilDiv(n, b) => Len(ch[j]) = b
              /\ Len(ch[j]) >= 1
              /\ Len(ch[j]) <= b
         /\ r.pc = "done" =>
              /\ Len(ch) = CeilDiv(n, b)
              /\ Flatten(ch) = r.list
         /\ n = 0 => ch = <<>>

C4_Witness ==
    /\ rm[0].pc = "done"
    /\ Len(rm[0].list) = 3
    /\ rm[0].ppr = 2
    /\ Len(rm[0].reqs) = 2
    /\ Len(rm[0].reqs[1].names) = 2
    /\ Len(rm[0].reqs[2].names) = 1

\* The first point of the catalog that bears the name (0: none).
PointNamed(nm) ==
    IF \E i \in 1..Len(points) : points[i].name = nm
      THEN CHOOSE i \in 1..Len(points) :
             /\ points[i].name = nm
             /\ \A j \in 1..(i - 1) : points[j].name # nm
      ELSE 0

\* The values the answered requests of the call returned for point i, in
\* the order of the list: the value at position p of the answer to chunk c
\* belongs to the point named at position p of chunk c.
RECURSIVE ValuesFor(_, _, _, _)
ValuesFor(r, i, c, p) ==
    IF c > Len(r.resps) THEN <<>>
    ELSE IF p > Len(r.reqs[c].names) \/ p > Len(r.resps[c]) THEN ValuesFor(r, i, c + 1, 1)
    ELSE (IF PointNamed(r.reqs[c].names[p]) = i THEN <<r.resps[c][p]>> ELSE <<>>)
         \o ValuesFor(r, i, c, p + 1)

AllAnswersFull(r) ==
    \A c \in 1..Len(r.resps) : Len(r.resps[c]) = Len(r.reqs[c].names)

\* How often the name of point i occurs in the chunks answered so far,
\* counting only the occurrences that resolve to point i.
Occurrences(r, i) ==
    LET done == Flatten([c \in 1..Len(r.resps) |-> r.reqs[c].names])
    IN Cardinality({m \in 1..Len(done) : PointNamed(done[m]) = i})

\* C5: when every readMultiple call returns one value per requested point,
\* the call appends to the history of each listed point exactly the values
\* returned at that point's positions, one per occurrence of its name; no
\* earlier entry is removed or overwritten and the other histories are
\* unchanged.
C5_ValuesAppendedInOrder ==
    LET r == rm[0]
    IN r.pc # "idle" /\ AllAnswersFull(r) =>
         \A i \in 1..Len(points) :
            /\ points[i].history = r.before[i] \o ValuesFor(r, i, 1, 1)
            /\ Len(points[i].history) = Len(r.before[i]) + Occurrences(r, i)

C5_Witness ==
    /\ rm[0].pc = "done"
    /\ AllAnswersFull(rm[0])
    /\ rm[0].ppr = 2
    /\ Len(rm[0].list) = 3
    /\ rm[0].list[1] = rm[0].list[3]
    /\ rm[0].list[1] # rm[0].list[2]
    /\ Len(points[1].history) >= 2

\* The first chunk of the list holding a name that no point bears (0: none).
FirstBadChunk(r) ==
    LET B == [c \in 1..CeilDiv(Len(r.list), r.ppr) |->
                SubSeq(r.list, (c - 1) * r.ppr + 1, Min(c * r.ppr, Len(r.list)))]
        bad == {c \in 1..Len(B) : \E p \in 1..Len(B[c]) : PointNamed(B[c][p]) = 0}
    IN IF bad = {} THEN 0 ELSE CHOOSE c \in bad : \A d \in bad : c <= d

\* C6: with a name that is absent from the catalog in the list, the call
\* never returns normally; no request is sent for the chunk holding the name
\* nor for a later one; the error raised when that chunk is reached names the
\* missing point, and the histories then hold what the earlier chunks
\* appended and nothing of the failing chunk.
C6_UnknownNameFailsChunk ==
    LET r == rm[0]
        f == FirstBadChunk(r)
    IN r.pc # "idle" /\ f > 0 =>
         /\ r.pc # "done"
         /\ Len(r.reqs) < f
         /\ r.k <= f
         /\ r.pc = "raised" /\ r.k = f =>
              /\ r.err = "ValueError"
              /\ PointNamed(r.missing) = 0
              /\ \E p \in 1..r.ppr :
                    /\ (f - 1) * r.ppr + p <= Len(r.list)
                    /\ r.list[(f - 1) * r.ppr + p] = r.missing
              /\ Len(r.reqs) = f - 1
              /\ Len(r.resps) = f - 1
              /\ \A i \in 1..Len(points) :
                    points[i].history = r.before[i] \o ValuesFor(r, i, 1, 1)

C6_Witness ==
    /\ rm[0].pc = "raised"
    /\ rm[0].err = "ValueError"
    /\ rm[0].missing = "z"
    /\ rm[0].k = 2
    /\ Len(rm[0].reqs) = 1
    /\ Len(points) = 2
    /\ Len(points[1].history) + Len(points[2].history) >= 2

\* C18: a call of read_multiple makes no single-point read and refreshes no
\* point's value; its network calls are readMultiple requests, one per chunk
\* in chunk order, and when the request for a chunk is sent every earlier
\* request has been answered and every value of those answers that has a
\* point is in that point's history.
C18_OnlyBatchedReadsInOrder ==
    LET r == rm[0]
        B == Batches(r.list, r.ppr)
    IN r.pc # "idle" =>
         /\ r.singles = <<>>
         /\ \A i \in 1..Len(points) : points[i].value = pointsDF[i].presentValue
         /\ Len(r.reqs) <= Len(B)
         /\ \A j \in 1..Len(r.reqs) : r.reqs[j].names = B[j]
         /\ Len(r.resps) \in {Len(r.reqs) - 1, Len(r.reqs)}
         /\ Len(r.resps) = Len(r.reqs) - 1 <=> r.pc = "L149" \/
                                               (r.pc = "raised" /\ r.err # "ValueError")
         /\ \A i \in 1..Len(points) :
               points[i].history = r.before[i] \o ValuesFor(r, i, 1, 1)
         /\ r.pc = "done" => Len(r.reqs) = Len(B) /\ Len(r.resps) = Len(B)

C18_Witness ==
    /\ rm[0].pc = "L149"
    /\ rm[0].k = 2
    /\ Len(rm[0].reqs) = 2
    /\ Len(rm[0].resps) = 1
    /\ Len(rm[0].resps[1]) = 2
    /\ rm[0].singles = <<>>
    /\ Len(points) = 2
    /\ Len(points[1].history) + Len(points[2].history) = 2

\* The latest request of the call has been answered or has raised.
ChunkProcessed(r) ==
    /\ Len(r.reqs) >= 1
    /\ r.pc \in {"L135", "done"} \/ (r.pc = "raised" /\ Len(r.resps) < Len(r.reqs))

\* How often the chunk of the latest request lists point i.
Listed(r, i) ==
    LET names == r.reqs[Len(r.reqs)].names
    IN Cardinality({p \in 1..Len(names) : PointNamed(names[p]) = i})

\* The history entries point i has received since the latest request.
Gained(r, i) == Len(points[i].history) - Len(r.sent[i])

\* C20: whatever readMultiple does for a chunk (it raises, or returns a
\* sequence of any length), once the chunk is processed either every point
\* of the chunk has received its new history entry (one per listing) or no
\* point has received any.
C20_ChunkAllOrNothing ==
    LET r == rm[0]
    IN r.pc # "idle" /\ ChunkProcessed(r) =>
         \/ \A i \in 1..Len(points) : Gained(r, i) = Listed(r, i)
         \/ \A i \in 1..Len(points) : Gained(r, i) = 0

(***************************************************************************)
(* The DevicePoll task (BAC0/tasks/Poll.py)                                *)
(***************************************************************************)
\* DevicePoll(device, delay=delay): a task that will tick every delay.
NewTask(delay) == [NoTask EXCEPT !.state = "created", !.delay = delay]

\* task.start(): the task begins to tick.
TaskStart(tk) == [tk EXCEPT !.state = "started", !.starts = @ + 1]

\* task.stop(): the task ticks no more once stop() has returned.
TaskStop(tk) == [tk EXCEPT !.state = "stopped", !.stops = @ + 1]

\* The next DevicePoll object to be created.
FreshTask ==
    CHOOSE t \in TaskIds : tasks[t].state = "none" /\ \A u \in 1..(t - 1) : tasks[u].state # "none"

Created == {t \in TaskIds : tasks[t].state # "none"}
Started == {t \in TaskIds : tasks[t].state = "started"}
ActiveCycles == {t \in TaskIds : tasks[t].cycle}

\* points_per_request of the read a tick makes: the default of line 106.
PollBatch == 25

\* A variant of the tick in which a task only looks at its own cycle.
TickOwnCycleOnly(t) ==
    /\ pc = "ready"
    /\ tasks[t].state = "started"
    /\ ~tasks[t].crashed
    /\ cycles + skipped < MaxTicks
    /\ ~tasks[t].cycle
    /\ tasks' = [tasks EXCEPT ![t].cycle = TRUE]
    /\ cycles' = cycles + 1
    /\ ReadMultipleCall(t, [i \in 1..Len(points) |-> points[i].name], PollBatch)
    /\ UNCHANGED <<points, task, running, pollpc, skipped, lastStart, look>>
    /\ UNCHANGED discVars

\* A tick of a started task while no read cycle of the Device is active: a
\* read cycle starts, a batched read over the device's points.
Tick(t) ==
    /\ pc = "ready"
    /\ tasks[t].state = "started"
    /\ ~tasks[t].crashed
    /\ cycles + skipped < MaxTicks
    /\ ActiveCycles = {}
    /\ tasks' = [tasks EXCEPT ![t].cycle = TRUE]
    /\ cycles' = cycles + 1
    /\ ReadMultipleCall(t, [i \in 1..Len(points) |-> points[i].name], PollBatch)
    /\ UNCHANGED <<points, task, running, pollpc, skipped, lastStart, look>>
    /\ UNCHANGED discVars

\* A tick of a started task while a read cycle is still active: skipped.
TickSkip(t) ==
    /\ pc = "ready"
    /\ tasks[t].state = "started"
    /\ ~tasks[t].crashed
    /\ cycles + skipped < MaxTicks
    /\ ActiveCycles # {}
    /\ skipped' = skipped + 1
    /\ UNCHANGED <<points, rm, task, running, tasks, pollpc, cycles, lastStart, look>>
    /\ UNCHANGED discVars

\* The steps of the batched read of a cycle, in the thread of task t.
CycleReadBatch(t) ==
    /\ tasks[t].cycle
    /\ ReadBatch(t)
    /\ UNCHANGED <<discVars, look>>
    /\ UNCHANGED pollVars

CycleReadResponse(t) ==
    /\ tasks[t].cycle
    /\ ReadResponse(t)
    /\ UNCHANGED <<discVars, look>>
    /\ UNCHANGED pollVars

CycleReadReturn(t) ==
    /\ tasks[t].cycle
    /\ ReadReturn(t)
    /\ UNCHANGED <<discVars, look>>
    /\ UNCHANGED pollVars

\* The batched read of the cycle of task t raised NoResponseFromController.
ReadFailed(t) == rm[t].pc = "raised" /\ rm[t].err = "NoResponseFromController"

\* A variant of the end of a cycle in which no error of the read is caught.
CycleEndUncaught(t) ==
    /\ tasks[t].cycle
    /\ rm[t].pc \in {"done", "raised"}
    /\ tasks' = [tasks EXCEPT ![t].cycle = FALSE, ![t].crashed = (rm[t].pc = "raised")]
    /\ rm' = [rm EXCEPT ![t] = IdleRM]
    /\ UNCHANGED <<points, task, running, pollpc, cycles, skipped, lastStart, look>>
    /\ UNCHANGED discVars

\* The read of a cycle has returned or raised. NoResponseFromController is
\* caught and the task goes on ticking; what another error does to the task
\* is not stated: the task goes on, or its ticking ends.
CycleEnd(t) ==
    /\ tasks[t].cycle
    /\ rm[t].pc \in {"done", "raised"}
    /\ \E dies \in BOOLEAN :
         /\ dies => rm[t].pc = "raised" /\ rm[t].err # "NoResponseFromController"
         /\ tasks' = [tasks EXCEPT ![t].cycle = FALSE, ![t].crashed = dies]
    /\ rm' = [rm EXCEPT ![t] = IdleRM]
    /\ UNCHANGED <<points, task, running, pollpc, cycles, skipped, lastStart, look>>
    /\ UNCHANGED discVars

(***************************************************************************)
(* Device.poll                                                             *)
(***************************************************************************)
UpperCase == <<"A","B","C","D","E","F","G","H","I","J","K","L","M",
               "N","O","P","Q","R","S","T","U","V","W","X","Y","Z">>
LowerCase == <<"a","b","c","d","e","f","g","h","i","j","k","l","m",
               "n","o","p","q","r","s","t","u","v","w","x","y","z">>

\* str.lower().
Lower(s) ==
    [i \in 1..Len(s) |->
       IF \E u \in 1..Len(UpperCase) : UpperCase[u] = s[i]
         THEN LowerCase[CHOOSE u \in 1..Len(UpperCase) : UpperCase[u] = s[i]]
         ELSE s[i]]

\* command == False: True of the bool False and of the int 0.
EqualsFalse(command) == command.k \in {"int", "bool"} /\ command.n = 0

\* command == 0: True of the int 0 and of the bool False.
EqualsZero(command) == command.k \in {"int", "bool"} /\ command.n = 0

\* Lines 310-313: the test that makes the call a stop command.
IsStopForm(command, delay) ==
    \/ Lower(Str(command)) = Chars.stop
    \/ EqualsFalse(command)
    \/ EqualsZero(command)
    \/ delay = 0

\* command arguments of poll.
Commands ==
    {PyStr("start"), PyStr("stop"), PyStr("STOP"), PyStr("Stop"), PyStr("sToP"),
     PyInt(0), PyInt(1), PyBool(FALSE), PyBool(TRUE)}

Goto(c, label) == pollpc' = [pollpc EXCEPT ![c].pc = label]
Return(c) == pollpc' = [pollpc EXCEPT ![c] = IdlePoll]
Raise(c, e) == pollpc' = [pollpc EXCEPT ![c] = [IdlePoll EXCEPT !.err = e]]

pollFrame == <<points, rm, cycles, skipped, look>>

\* The poll state a call finds when it is entered.
Calls(tk) == [state |-> tk.state, starts |-> tk.starts, stops |-> tk.stops]
Entry == [task |-> task, running |-> running,
          tasks |-> [t \in TaskIds |-> Calls(tasks[t])]]

\* The callers whose call of poll may still create a DevicePoll.
Creating ==
    {c \in Callers : pollpc[c].pc \in {"L318", "L319", "L322", "L323", "L324", "L325"}}

\* Lines 293 and 310-313: poll(command, delay=delay) is entered and the test
\* on its arguments sends the stop forms to line 314, the others to line 318.
PollCall(c, command, delay) ==
    /\ pc = "ready"
    /\ pollpc[c].pc = "idle"
    /\ IsStopForm(command, delay) \/ Cardinality(Created) + Cardinality(Creating) < MaxTasks
    /\ IF IsStopForm(command, delay)
         THEN /\ pollpc' = [pollpc EXCEPT ![c] =
                              [IdlePoll EXCEPT !.pc = "L314", !.entry = Entry]]
              /\ lastStart' = 0
         ELSE /\ pollpc' = [pollpc EXCEPT ![c] =
                              [IdlePoll EXCEPT !.pc = "L318", !.delay = delay,
                                               !.entry = Entry]]
              /\ lastStart' = delay
    /\ UNCHANGED <<task, running, tasks>>
    /\ UNCHANGED pollFrame
    /\ UNCHANGED discVars

\* Line 314: isinstance(self._polling_task.task, DevicePoll).
Poll314(c) ==
    /\ pollpc[c].pc = "L314"
    /\ IF task # 0 THEN Goto(c, "L315") ELSE Return(c)
    /\ UNCHANGED <<task, running, tasks, lastStart>>
    /\ UNCHANGED pollFrame
    /\ UNCHANGED discVars

\* self._polling_task.task.stop(): AttributeError when the handle is None.
StopHandle(c, next) ==
    /\ IF task = 0
         THEN Raise(c, "AttributeError") /\ tasks' = tasks
         ELSE Goto(c, next) /\ tasks' = [tasks EXCEPT ![task] = TaskStop(@)]
    /\ UNCHANGED <<task, running, lastStart>>
    /\ UNCHANGED pollFrame
    /\ UNCHANGED discVars

\* self._polling_task.task.start(): AttributeError when the handle is None.
StartHandle(c, next) ==
    /\ IF task = 0
         THEN Raise(c, "AttributeError") /\ tasks' = tasks
         ELSE Goto(c, next) /\ tasks' = [tasks EXCEPT ![task] = TaskStart(@)]
    /\ UNCHANGED <<task, running, lastStart>>
    /\ UNCHANGED pollFrame
    /\ UNCHANGED discVars

\* self._polling_task.task = DevicePoll(self, delay=delay).
NewHandle(c, next) ==
    /\ task' = FreshTask
    /\ tasks' = [tasks EXCEPT ![FreshTask] = NewTask(pollpc[c].delay)]
    /\ Goto(c, next)
    /\ UNCHANGED <<running, lastStart>>
    /\ UNCHANGED pollFrame
    /\ UNCHANGED discVars

\* self._polling_task.running = value, after which poll goes to next
\* ("idle": it returns).
SetRunning(c, value, next) ==
    /\ running' = value
    /\ IF next = "idle" THEN Return(c) ELSE Goto(c, next)
    /\ UNCHANGED <<task, tasks, lastStart>>
    /\ UNCHANGED pollFrame
    /\ UNCHANGED discVars

\* A variant of line 315 that does not stop the task.
Poll315NoStop(c) ==
    /\ pollpc[c].pc = "L315"
    /\ Goto(c, "L316")
    /\ UNCHANGED <<task, running, tasks, lastStart>>
    /\ UNCHANGED pollFrame
    /\ UNCHANGED discVars

\* Line 315.
Poll315(c) == pollpc[c].pc = "L315" /\ StopHandle(c, "L316")

\* A variant of line 316 that leaves the handle as it is.
Poll316KeepHandle(c) ==
    /\ pollpc[c].pc = "L316"
    /\ Goto(c, "L317")
    /\ UNCHANGED <<task, running, tasks, lastStart>>
    /\ UNCHANGED pollFrame
    /\ UNCHANGED discVars

\* Line 316: self._polling_task.task = None.
Poll316(c) ==
    /\ pollpc[c].pc = "L316"
    /\ task' = 0
    /\ Goto(c, "L317")
    /\ UNCHANGED <<running, tasks, lastStart>>
    /\ UNCHANGED pollFrame
    /\ UNCHANGED discVars

\* Line 317.
Poll317(c) == pollpc[c].pc = "L317" /\ SetRunning(c, FALSE, "idle")

\* Line 318: self._polling_task.task is None.
Poll318(c) ==
    /\ pollpc[c].pc = "L318"
    /\ IF task = 0 THEN Goto(c, "L319") ELSE Goto(c, "L322")
    /\ UNCHANGED <<task, running, tasks, lastStart>>
    /\ UNCHANGED pollFrame
    /\ UNCHANGED discVars

\* A variant of line 321 that leaves the flag as it is.
Poll321NoFlag(c) ==
    /\ pollpc[c].pc = "L321"
    /\ Return(c)
    /\ UNCHANGED <<task, running, tasks, lastStart>>
    /\ UNCHANGED pollFrame
    /\ UNCHANGED discVars

\* Lines 319-321.
Poll319(c) == pollpc[c].pc = "L319" /\ NewHandle(c, "L320")
Poll320(c) == pollpc[c].pc = "L320" /\ StartHandle(c, "L321")
Poll321(c) == pollpc[c].pc = "L321" /\ SetRunning(c, TRUE, "idle")

\* A variant of lines 322-329 whose else branch returns without raising.
Poll322Ignore(c) ==
    /\ pollpc[c].pc = "L322"
    /\ IF running THEN Goto(c, "L323") ELSE Return(c)
    /\ UNCHANGED <<task, running, tasks, lastStart>>
    /\ UNCHANGED pollFrame
    /\ UNCHANGED discVars

\* Lines 322 and 328-329: with the handle set and the flag false poll raises
\* RuntimeError('Stop polling before redefining it').
Poll322(c) ==
    /\ pollpc[c].pc = "L322"
    /\ IF running THEN Goto(c, "L323") ELSE Raise(c, "RuntimeError")
    /\ UNCHANGED <<task, running, tasks, lastStart>>
    /\ UNCHANGED pollFrame
    /\ UNCHANGED discVars

\* A variant of line 323 that does not stop the running task.
Poll323NoStop(c) ==
    /\ pollpc[c].pc = "L323"
    /\ Goto(c, "L324")
    /\ UNCHANGED <<task, running, tasks, lastStart>>
    /\ UNCHANGED pollFrame
    /\ UNCHANGED discVars

\* A variant of line 325 that creates no DevicePoll and keeps the handle.
Poll325Reuse(c) ==
    /\ pollpc[c].pc = "L325"
    /\ Goto(c, "L326")
    /\ UNCHANGED <<task, running, tasks, lastStart>>
    /\ UNCHANGED pollFrame
    /\ UNCHANGED discVars

\* A variant of line 325 that keeps the delay of the task it replaces.
Poll325SameDelay(c) ==
    /\ pollpc[c].pc = "L325"
    /\ task' = FreshTask
    /\ tasks' = [tasks EXCEPT ![FreshTask] = NewTask(tasks[task].delay)]
    /\ Goto(c, "L326")
    /\ UNCHANGED <<running, lastStart>>
    /\ UNCHANGED pollFrame
    /\ UNCHANGED discVars

\* Lines 323-327.
Poll323(c) == pollpc[c].pc = "L323" /\ StopHandle(c, "L324")
Poll324(c) == pollpc[c].pc = "L324" /\ SetRunning(c, FALSE, "L325")
Poll325(c) == pollpc[c].pc = "L325" /\ NewHandle(c, "L326")
Poll326(c) == pollpc[c].pc = "L326" /\ StartHandle(c, "L327")
Poll327(c) == pollpc[c].pc = "L327" /\ SetRunning(c, TRUE, "idle")

\* delay arguments of poll.
Delays == 0..MaxDelay

\* The inventory of the device the polling specification talks to.
PollInventory == <<[pointType |-> PyStr("analogInput"), pointAddr |-> 1]>>

\* One caller of poll at a time, the tasks it starts, and their read cycles.
NextPoll ==
    \/ Construct
    \/ DiscoverPss
    \/ DiscoverName
    \/ DiscoverObjList({PollInventory})
    \/ DiscoverEntry({"a"})
    \/ DiscoverFinish
    \/ \E command \in Commands, delay \in Delays : PollCall(1, command, delay)
    \/ Poll314(1)
    \/ Poll315(1)
    \/ Poll316(1)
    \/ Poll317(1)
    \/ Poll318(1)
    \/ Poll319(1)
    \/ Poll320(1)
    \/ Poll321(1)
    \/ Poll322(1)
    \/ Poll323(1)
    \/ Poll324(1)
    \/ Poll325(1)
    \/ Poll326(1)
    \/ Poll327(1)
    \/ \E t \in TaskIds : Tick(t)
    \/ \E t \in TaskIds : TickSkip(t)
    \/ \E t \in TaskIds : CycleReadBatch(t)
    \/ \E t \in TaskIds : CycleReadResponse(t)
    \/ \E t \in TaskIds : CycleReadReturn(t)
    \/ \E t \in TaskIds : CycleEnd(t)

SpecPoll == InitNew /\ [][NextPoll]_vars

\* Two threads call poll on the same Device; their lines interleave.
NextPoll2 ==
    \/ Construct
    \/ DiscoverPss
    \/ DiscoverName
    \/ DiscoverObjList({PollInventory})
    \/ DiscoverEntry({"a"})
    \/ DiscoverFinish
    \/ \E c \in Callers, command \in Commands, delay \in Delays : PollCall(c, command, delay)
    \/ \E c \in Callers : Poll314(c)
    \/ \E c \in Callers : Poll315(c)
    \/ \E c \in Callers : Poll316(c)
    \/ \E c \in Callers : Poll317(c)
    \/ \E c \in Callers : Poll318(c)
    \/ \E c \in Callers : Poll319(c)
    \/ \E c \in Callers : Poll320(c)
    \/ \E c \in Callers : Poll321(c)
    \/ \E c \in Callers : Poll322(c)
    \/ \E c \in Callers : Poll323(c)
    \/ \E c \in Callers : Poll324(c)
    \/ \E c \in Callers : Poll325(c)
    \/ \E c \in Callers : Poll326(c)
    \/ \E c \in Callers : Poll327(c)

SpecPoll2 == InitNew /\ [][NextPoll2]_vars

\* The controller does not answer the request of a cycle of task t.
CycleReadUnanswered(t) ==
    /\ tasks[t].cycle
    /\ ReadRaised(t, "NoResponseFromController")
    /\ UNCHANGED <<discVars, look>>
    /\ UNCHANGED pollVars

\* Polling a controller that has stopped answering: every request of a read
\* cycle ends in NoResponseFromController.
NextCycle ==
    \/ Construct
    \/ DiscoverPss
    \/ DiscoverName
    \/ DiscoverObjList({PollInventory})
    \/ DiscoverEntry({"a"})
    \/ DiscoverFinish
    \/ \E command \in Commands, delay \in Delays : PollCall(1, command, delay)
    \/ Poll314(1)
    \/ Poll315(1)
    \/ Poll316(1)
    \/ Poll317(1)
    \/ Poll318(1)
    \/ Poll319(1)
    \/ Poll320(1)
    \/ Poll321(1)
    \/ Poll322(1)
    \/ Poll323(1)
    \/ Poll324(1)
    \/ Poll325(1)
    \/ Poll326(1)
    \/ Poll327(1)
    \/ \E t \in TaskIds : Tick(t)
    \/ \E t \in TaskIds : TickSkip(t)
    \/ \E t \in TaskIds : CycleReadBatch(t)
    \/ \E t \in TaskIds : CycleReadUnanswered(t)
    \/ \E t \in TaskIds : CycleEnd(t)

SpecCycle == InitNew /\ [][NextCycle]_vars

\* poll wraps none of its calls in a try: an exception raised by the
\* DevicePoll constructor (lines 319, 325), by start() (lines 320, 326) or by
\* stop() (lines 315, 323) leaves poll at that line, with the assignments
\* made so far in place and the later ones not made.
ConstructorRaises(c) ==
    /\ pollpc[c].pc \in {"L319", "L325"}
    /\ Raise(c, "TaskError")
    /\ UNCHANGED <<task, running, tasks, lastStart>>
    /\ UNCHANGED pollFrame
    /\ UNCHANGED discVars

StartRaises(c) ==
    /\ pollpc[c].pc \in {"L320", "L326"}
    /\ task # 0
    /\ Raise(c, "TaskError")
    /\ UNCHANGED <<task, running, tasks, lastStart>>
    /\ UNCHANGED pollFrame
    /\ UNCHANGED discVars

StopRaises(c) ==
    /\ pollpc[c].pc \in {"L315", "L323"}
    /\ task # 0
    /\ Raise(c, "TaskError")
    /\ UNCHANGED <<task, running, tasks, lastStart>>
    /\ UNCHANGED pollFrame
    /\ UNCHANGED discVars

\* One caller of poll at a time, with a DevicePoll whose constructor, start()
\* and stop() may raise.
NextPollFail ==
    \/ Construct
    \/ DiscoverPss
    \/ DiscoverName
    \/ DiscoverObjList({PollInventory})
    \/ DiscoverEntry({"a"})
    \/ DiscoverFinish
    \/ \E command \in Commands, delay \in Delays : PollCall(1, command, delay)
    \/ Poll314(1)
    \/ Poll315(1)
    \/ Poll316(1)
    \/ Poll317(1)
    \/ Poll318(1)
    \/ Poll319(1)
    \/ Poll320(1)
    \/ Poll321(1)
    \/ Poll322(1)
    \/ Poll323(1)
    \/ Poll324(1)
    \/ Poll325(1)
    \/ Poll326(1)
    \/ Poll327(1)
    \/ ConstructorRaises(1)
    \/ StartRaises(1)
    \/ StopRaises(1)

SpecPollFail == InitNew /\ [][NextPollFail]_vars

(***************************************************************************)
(* Device.__getitem__, Device.read, Device.__iter__, Device.__len__        *)
(***************************************************************************)
\* A variant of _findPoint that reads the network before it looks the name
\* up, so that a miss has sent a request.
GetItemReadFirst(point_name) ==
    /\ pc = "ready"
    /\ LET i == FindPoint(point_name)
           call == [NoLook EXCEPT !.op = "getitem", !.arg = point_name,
                                  !.reqs = <<[fn |-> "read", pointType |-> PyNone,
                                              pointAddr |-> 0,
                                              props |-> <<"presentValue">>]>>]
       IN IF i = 0
            THEN /\ look' = [call EXCEPT !.err = "ValueError"]
                 /\ points' = points
            ELSE /\ look' = [call EXCEPT !.result = i]
                 /\ points' = points
    /\ UNCHANGED <<rm, discVars>>
    /\ UNCHANGED pollVars

\* Lines 331-339 and 498-515: device[point_name] is _findPoint(point_name)
\* with force_read left at True. A name no point bears raises ValueError;
\* for the first point that bears it point.value is evaluated, a single-point
\* read that refreshes the value or raises, and the point is returned.
GetItem(point_name) ==
    /\ pc = "ready"
    /\ LET i == FindPoint(point_name)
           call == [NoLook EXCEPT !.op = "getitem", !.arg = point_name,
                                  !.reqs = ForcedReads(i, TRUE)]
       IN IF i = 0
            THEN /\ look' = [call EXCEPT !.err = "ValueError"]
                 /\ points' = points
            ELSE \/ \E reading \in Readings :
                      /\ points' = [points EXCEPT ![i] = PointValue(@, reading)]
                      /\ look' = [call EXCEPT !.result = i]
                 \/ /\ points' = points
                    /\ look' = [call EXCEPT !.err = "NoResponseFromController"]
    /\ UNCHANGED <<rm, discVars>>
    /\ UNCHANGED pollVars

\* Lines 81-104: read(point_name) looks the row up in self._pointsDF, which
\* is the list [] after a discovery that found no controller (AttributeError
\* on .ix); a name without a row raises KeyError, turned into Exception; else
\* one network.read is sent and its value returned, or its error raised.
Read(point_name) ==
    /\ pc = "ready"
    /\ LET rows == {j \in 1..Len(pointsDF) : pointsDF[j].pointName = point_name}
           call == [NoLook EXCEPT !.op = "read", !.arg = point_name]
           request == [fn |-> "read", rows |-> rows, props |-> <<"presentValue">>]
       IN IF disc.unreachable
            THEN look' = [call EXCEPT !.err = "AttributeError"]
            ELSE IF rows = {}
                   THEN look' = [call EXCEPT !.err = "Exception"]
                   ELSE \/ \E val \in Readings :
                             look' = [call EXCEPT !.result = val, !.reqs = <<request>>]
                        \/ \E e \in {"Exception", "NoResponseFromController"} :
                             look' = [call EXCEPT !.err = e, !.reqs = <<request>>]
    /\ UNCHANGED <<points, rm, discVars>>
    /\ UNCHANGED pollVars

\* Lines 341-346: iterating the device yields self.points in order.
Iterate ==
    /\ pc = "ready"
    /\ look' = [NoLook EXCEPT !.op = "iter", !.seen = [i \in 1..Len(points) |-> i]]
    /\ UNCHANGED <<points, rm, discVars>>
    /\ UNCHANGED pollVars

\* Lines 358-362: len(device) is len(self.points).
Length ==
    /\ pc = "ready"
    /\ look' = [NoLook EXCEPT !.op = "len", !.result = Len(points)]
    /\ UNCHANGED <<points, rm, discVars>>
    /\ UNCHANGED pollVars

\* The call on the facade has returned or raised: its record is dropped.
FacadeExit ==
    /\ look.op # "none"
    /\ look' = NoLook
    /\ UNCHANGED <<points, rm, discVars>>
    /\ UNCHANGED pollVars

\* The user's thread is in no call.
UserIdle == rm[0].pc = "idle" /\ pollpc[1].pc = "idle" /\ look.op = "none"

\* A call of read_multiple by the user for one name.
UserReadOne(point_name) ==
    /\ TotalHistory < MaxHist
    /\ ReadMultipleCall(0, <<point_name>>, 1)
    /\ UNCHANGED <<points, discVars, look>>
    /\ UNCHANGED pollVars

\* The calls a user makes on a constructed Device, one at a time.
NextFacade ==
    \/ Construct
    \/ DiscoverPss
    \/ DiscoverName
    \/ DiscoverObjList({ReadInventory})
    \/ DiscoverEntry(Names)
    \/ DiscoverFinish
    \/ \E point_name \in ListNames : UserIdle /\ UserReadOne(point_name)
    \/ UserReadBatch
    \/ UserReadReturn
    \/ UserReadResponse
    \/ UserReadExit
    \/ \E point_name \in ListNames : UserIdle /\ GetItem(point_name)
    \/ \E point_name \in ListNames : UserIdle /\ Read(point_name)
    \/ UserIdle /\ Iterate
    \/ UserIdle /\ Length
    \/ FacadeExit
    \/ \E command \in Commands, delay \in {0, 1} :
          UserIdle /\ PollCall(1, command, delay)
    \/ Poll314(1)
    \/ Poll315(1)
    \/ Poll316(1)
    \/ Poll317(1)
    \/ Poll318(1)
    \/ Poll319(1)
    \/ Poll320(1)
    \/ Poll321(1)
    \/ Poll322(1)
    \/ Poll323(1)
    \/ Poll324(1)
    \/ Poll325(1)
    \/ Poll326(1)
    \/ Poll327(1)

SpecFacade == InitNew /\ [][NextFacade]_vars

\* A call of read_multiple by the user for discovered names, which may name
\* one point twice, in one request or in several.
UserReadNames ==
    \E n \in 1..MaxBatch, ppr \in 1..MaxBatch :
        \E point_list \in [1..n -> Names] :
            /\ TotalHistory + Len(point_list) <= MaxHist
            /\ ReadMultipleCall(0, point_list, ppr)
            /\ UNCHANGED <<points, discVars, look>>
            /\ UNCHANGED pollVars

\* Lookups by name on a device whose controller may report one name for
\* several objects.
NextLookup ==
    \/ Construct
    \/ DiscoverPss
    \/ DiscoverName
    \/ DiscoverObjList({ReadInventory})
    \/ DiscoverEntry(Names)
    \/ DiscoverFinish
    \/ UserIdle /\ UserReadNames
    \/ UserReadBatch
    \/ UserReadReturn
    \/ UserReadResponse
    \/ UserReadExit
    \/ \E point_name \in Names : UserIdle /\ GetItem(point_name)
    \/ FacadeExit

SpecLookup == InitNew /\ [][NextLookup]_vars

(***************************************************************************)
(* Properties of the polling lifecycle, one caller of poll at a time.      *)
(***************************************************************************)
\* No call of poll is in progress and the last one did not raise.
PollIdle == pollpc[1].pc = "idle" /\ pollpc[1].err = ""

\* C1: at every moment, inside a call of poll as well as between calls, at
\* most one DevicePoll has been started and not stopped; once a start
\* command has returned exactly one is active, the one the handle refers to.
C1_AtMostOneActiveTask ==
    /\ Cardinality(Started) <= 1
    /\ PollIdle /\ lastStart > 0 => Started = {task}

C1_Witness ==
    /\ pollpc[1].pc = "L327"
    /\ tasks[1].state = "stopped"
    /\ tasks[1].stops = 1
    /\ task = 2
    /\ tasks[2].state = "started"

\* C2: once a stop form of poll has returned, and until the next start
\* command, no tick fires: the number of read cycles started by polling does
\* not grow (a read already in flight goes on).
C2_NoTickAfterStop ==
    [][PollIdle /\ lastStart = 0 => cycles' = cycles /\ skipped' = skipped]_vars

C2_Witness ==
    /\ PollIdle
    /\ lastStart = 0
    /\ task = 0
    /\ \E t \in TaskIds :
         /\ tasks[t].state = "stopped"
         /\ tasks[t].cycle
         /\ rm[t].pc = "L149"

\* C3: at most one read cycle of the Device is active at any time, and a tick
\* that fires while a cycle is active starts no cycle.
C3_OneCycleAtATime ==
    /\ [](Cardinality(ActiveCycles) <= 1)
    /\ [][ActiveCycles # {} => cycles' = cycles]_vars

C3_Witness ==
    /\ skipped >= 1
    /\ ActiveCycles # {}
    /\ cycles = 1

\* C10: a constructed Device is Stopped until poll is called; after a start
\* command with delay d has returned the controller is Running with exactly
\* one started task, created by that command, whose delay is d.
C10_RunningAtRequestedDelay ==
    /\ pc = "ready" /\ Created = {} => task = 0 /\ ~running
    /\ PollIdle /\ pc = "ready" => (running <=> lastStart > 0)
    /\ PollIdle /\ running =>
         /\ task \in TaskIds
         /\ Started = {task}
         /\ tasks[task].starts = 1
         /\ tasks[task].stops = 0
         /\ tasks[task].delay = lastStart

C10_Witness ==
    /\ PollIdle
    /\ running
    /\ lastStart = 2
    /\ tasks[1].state = "stopped"
    /\ tasks[1].delay = 1
    /\ task = 2
    /\ tasks[2].delay = 2

\* The forms of the arguments that the documentation of poll calls a stop.
StopCommands ==
    {PyStr("stop"), PyStr("STOP"), PyStr("Stop"), PyStr("sToP"), PyInt(0), PyBool(FALSE)}

\* The call of poll in progress took the stop branch of line 310.
InStopCall == pollpc[1].pc \in {"L314", "L315", "L316", "L317"}

\* C11: every stop form of poll (command 'stop' in any letter case, 0, False,
\* or delay 0) takes the stop branch; a call on that branch creates and starts
\* no task, and when it returns the handle is None and the flag false: from
\* Running it has called stop() exactly once, on the task that was active,
\* and from Stopped it has called nothing and changed nothing.
C11_StopFormsStop ==
    /\ [](/\ \A command \in StopCommands, delay \in Delays : IsStopForm(command, delay)
          /\ \A command \in Commands : IsStopForm(command, 0)
          /\ InStopCall =>
               \A t \in TaskIds :
                  /\ tasks[t].starts = pollpc[1].entry.tasks[t].starts
                  /\ (tasks[t].state = "none") = (pollpc[1].entry.tasks[t].state = "none"))
    /\ [][InStopCall /\ pollpc'[1].pc = "idle" =>
            LET e == pollpc[1].entry IN
              /\ pollpc'[1].err = ""
              /\ task' = 0
              /\ ~running'
              /\ IF e.task # 0
                   THEN /\ tasks'[e.task].stops = e.tasks[e.task].stops + 1
                        /\ tasks'[e.task].state = "stopped"
                        /\ \A t \in TaskIds \ {e.task} : Calls(tasks'[t]) = e.tasks[t]
                   ELSE /\ running' = e.running
                        /\ \A t \in TaskIds : Calls(tasks'[t]) = e.tasks[t]
        ]_vars

C11_Witness ==
    /\ PollIdle
    /\ lastStart = 0
    /\ task = 0
    /\ ~running
    /\ tasks[1].starts = 1
    /\ tasks[1].stops = 1
    /\ tasks[2].state = "none"

\* The step ends a cycle of task t whose read raised NoResponseFromController.
FailedCycleEnds(t) == tasks[t].cycle /\ ReadFailed(t) /\ ~tasks'[t].cycle

\* C13: when the batched read of a poll cycle raises NoResponseFromController
\* the error is caught and the task is not stopped by it: the handle, the
\* flag and the state of the task are as before and the task goes on ticking;
\* its next tick, with no cycle active, starts a read cycle as any tick does.
C13_ReadFailureKeepsPolling ==
    /\ [][\A t \in TaskIds : FailedCycleEnds(t) =>
              /\ ~tasks'[t].crashed
              /\ Calls(tasks'[t]) = Calls(tasks[t])
              /\ task' = task
              /\ running' = running
              /\ pollpc' = pollpc
        ]_vars
    /\ [](\A t \in TaskIds :
            /\ ~tasks[t].crashed
            /\ (/\ pc = "ready"
                /\ cycles >= 1
                /\ tasks[t].state = "started"
                /\ ActiveCycles = {}
                /\ cycles + skipped < MaxTicks
                => ENABLED Tick(t)))

C13_Witness ==
    /\ PollIdle
    /\ running
    /\ task = 1
    /\ tasks[1].state = "started"
    /\ tasks[1].cycle
    /\ cycles = 2
    /\ rm[1].pc = "L149"

\* The call of poll in progress is a start command.
InStartCall == pollpc[1].pc \notin {"idle", "L314", "L315", "L316", "L317"}

\* The call in progress found the handle set and the flag false.
EnteredInConflict == pollpc[1].entry.task # 0 /\ ~pollpc[1].entry.running

\* C14: a start command issued while the handle is set and the flag is false
\* ends with RuntimeError('Stop polling before redefining it'): it does not
\* return normally, and from its entry to the raise it creates, starts and
\* stops no task and leaves the handle and the flag as they were.
C14_ConflictRaises ==
    /\ [](InStartCall /\ EnteredInConflict =>
            /\ pollpc[1].pc \in {"L318", "L322"}
            /\ task = pollpc[1].entry.task
            /\ running = pollpc[1].entry.running
            /\ \A t \in TaskIds : Calls(tasks[t]) = pollpc[1].entry.tasks[t])
    /\ [][InStartCall /\ EnteredInConflict /\ pollpc'[1].pc = "idle" =>
            /\ pollpc'[1].err = "RuntimeError"
            /\ UNCHANGED <<task, running, tasks>>
        ]_vars

C14_Witness ==
    /\ pollpc[1].pc = "idle"
    /\ pollpc[1].err = "RuntimeError"
    /\ task = 1
    /\ ~running
    /\ tasks[1].state = "created"
    /\ tasks[2].state = "none"

\* C16: with calls of poll made one at a time and a DevicePoll whose
\* constructor, start() and stop() do not raise, between the calls the handle
\* is set exactly when the flag is true; so the test of line 322 is only
\* reached with the flag true and RuntimeError is never raised.
C16_HandleIffRunning ==
    /\ pc = "ready" /\ pollpc[1].pc = "idle" => (task # 0 <=> running)
    /\ pollpc[1].pc \in {"L314", "L318"} =>
         (pollpc[1].entry.task # 0 <=> pollpc[1].entry.running)
    /\ pollpc[1].pc = "L322" => running
    /\ pollpc[1].err = ""

C16_Witness ==
    /\ pollpc[1].pc = "L322"
    /\ running
    /\ task = 1
    /\ tasks[1].state = "started"

\* The step makes the controller Running: the flag becomes true.
BecomesRunning == ~running /\ running'

\* C17: over any sequence of calls of poll, start() is called at most once
\* and stop() at most once on each DevicePoll, never stop() before start();
\* between calls every DevicePoll created has been started exactly once; and
\* each time the flag becomes true the handle is a task created by that
\* call, started once and not stopped, while a task that was stopped is
\* never the handle of a later Running state.
C17_FreshTaskPerStart ==
    /\ [](\A t \in TaskIds :
            /\ tasks[t].starts <= 1
            /\ tasks[t].stops <= 1
            /\ tasks[t].stops = 1 => tasks[t].starts = 1
            /\ tasks[t].state = "stopped" => tasks[t].stops = 1
            /\ PollIdle /\ tasks[t].state # "none" => tasks[t].starts = 1
            /\ PollIdle /\ task = t => tasks[t].stops = 0)
    /\ [][BecomesRunning =>
            /\ task' \in TaskIds
            /\ pollpc[1].entry.tasks[task'].state = "none"
            /\ tasks'[task'].starts = 1
            /\ tasks'[task'].stops = 0
        ]_vars
    /\ [][\A t \in TaskIds :
              tasks[t].state = "stopped" => Calls(tasks'[t]) = Calls(tasks[t])
        ]_vars

C17_Witness ==
    /\ PollIdle
    /\ running
    /\ task = 2
    /\ tasks[1].starts = 1
    /\ tasks[1].stops = 1
    /\ tasks[2].starts = 1
    /\ tasks[2].stops = 0

\* No call of poll is in progress in either thread and none has raised.
BothReturned == \A c \in Callers : pollpc[c].pc = "idle" /\ pollpc[c].err = ""

\* C15: whatever the interleaving of two concurrent calls of poll, once both
\* have returned at most one task is started and not stopped, it is the task
\* of the handle, and the flag is true exactly when the handle is set.
C15_NoOrphanTask ==
    pc = "ready" /\ BothReturned =>
        /\ Cardinality(Started) <= 1
        /\ Started \subseteq {task}
        /\ running <=> task # 0

(***************************************************************************)
(* Properties of the facade.                                               *)
(***************************************************************************)
\* The step is a lookup device[name] that raised ValueError.
LookupMissed == look.op = "none" /\ look'.op = "getitem" /\ look'.err = "ValueError"

\* C12: device[name] for a name that no point of the catalog bears raises the
\* not-found error (ValueError) and does nothing else: it sends no request on
\* the network, and the points with their values and histories, the index,
\* the device name and the poll state are as they were.
C12_MissHasNoSideEffect ==
    /\ [](look.op = "getitem" =>
            /\ (PointNamed(look.arg) = 0) = (look.err = "ValueError")
            /\ look.err = "ValueError" => look.reqs = <<>> /\ look.result = 0)
    /\ [][LookupMissed =>
            /\ look'.reqs = <<>>
            /\ UNCHANGED <<points, pointsDF, name, netlog, rm>>
            /\ UNCHANGED <<task, running, tasks, pollpc, cycles, skipped>>
        ]_vars

C12_Witness ==
    /\ look.op = "getitem"
    /\ look.arg = "z"
    /\ look.err = "ValueError"
    /\ Len(points) = 2
    /\ points[1].value = 1
    /\ Len(points[2].history) >= 1
    /\ running

\* What identifies the points of the catalog: all but value and history.
Catalog ==
    [i \in 1..Len(points) |->
       [family |-> points[i].family, type |-> points[i].type,
        address |-> points[i].address, name |-> points[i].name]]

\* The runs of discovery: its first request, sent once per run.
IsDiscoveryStart(r) == r.fn = "read" /\ r.props = <<"protocolServicesSupported">>

\* C19: discovery runs once, in the constructor; on the constructed device
\* the index has one row per point, in the order of the points and under the
\* point's name, and no call of read, read_multiple, device[name],
\* iteration, len or poll changes the points' sequence, the index or the
\* device name, or sends a discovery request.
C19_CatalogFixedAndInSync ==
    /\ [](Len(SelectSeq(netlog, IsDiscoveryStart)) <= 1)
    /\ [](pc = "ready" =>
            /\ Len(SelectSeq(netlog, IsDiscoveryStart)) = 1
            /\ Len(pointsDF) = Len(points)
            /\ \A j \in 1..Len(points) :
                  /\ pointsDF[j].pointName = points[j].name
                  /\ pointsDF[j].pointType = points[j].type
                  /\ pointsDF[j].pointAddr = points[j].address)
    /\ [][pc = "ready" =>
            /\ pc' = "ready"
            /\ Catalog' = Catalog
            /\ UNCHANGED <<pointsDF, name, netlog, disc>>
        ]_vars

C19_Witness ==
    /\ pc = "ready"
    /\ look.op = "iter"
    /\ look.seen = <<1, 2>>
    /\ points[1].name = points[2].name
    /\ points[1].value = 1
    /\ Len(points[1].history) >= 1
    /\ running
    /\ tasks[1].state = "stopped"

\* Point i has the name nm and no point before it in self.points has.
IsFirstNamed(i, nm) ==
    /\ i \in 1..Len(points)
    /\ points[i].name = nm
    /\ \A j \in 1..(i - 1) : points[j].name # nm

\* Point i bears the name of a point discovered before it.
Shadowed(i) == \E j \in 1..(i - 1) : points[j].name = points[i].name

\* C21: when several points share a name, device[name] returns the first of
\* them in discovery order and read_multiple resolves every such name of a
\* batch to the first of them; a later point with the name is never
\* returned, never has its value refreshed by a lookup and never receives
\* history.
C21_FirstMatchWins ==
    /\ look.op = "getitem" /\ look.err = "" => IsFirstNamed(look.result, look.arg)
    /\ rm[0].pc = "L149" =>
          LET batch == rm[0].reqs[Len(rm[0].reqs)].names
          IN /\ Len(rm[0].pts) = Len(batch)
             /\ \A j \in 1..Len(batch) : IsFirstNamed(rm[0].pts[j], batch[j])
    /\ \A i \in 1..Len(points) :
          Shadowed(i) => points[i].history = <<>> /\ points[i].value = 0

C21_Witness ==
    /\ pc = "ready"
    /\ Len(points) = 2
    /\ points[1].name = points[2].name
    /\ look.op = "getitem"
    /\ look.result = 1
    /\ points[1].value = 1
    /\ Len(points[1].history) = 2
    /\ points[2].history = <<>>

(***************************************************************************)
(* Properties of discovery.                                                *)
(***************************************************************************)
\* C7: if the initial read of protocolServicesSupported reports the
\* controller unreachable, construction completes without raising, the device
\* has the sentinel name, no points and an empty index, and the failed read is
\* the only network call discovery has made.
C7_UnreachableRecovered ==
    disc.unreachable =>
        /\ pc = "ready"
        /\ err = ""
        /\ name = "Not Found"
        /\ points = <<>>
        /\ pointsDF = <<>>
        /\ Len(netlog) = 1

C7_Witness ==
    /\ disc.unreachable
    /\ pc = "ready"
    /\ Len(netlog) = 1

\* The inventory entries the loop has gone through that produced no row.
Dropped(j) == \A r \in 1..Len(disc.result) : disc.result[r].pointAddr # j

\* The types the filter is meant to drop: the ten infrastructure types, None
\* and integers.
InfraOrNonSymbolic(pointType) ==
    \/ pointType.k = "str" /\ pointType.s \in InfraTypes
    \/ pointType.k = "none"
    \/ pointType.k = "int"

\* C8: discovery drops an inventory entry if and only if its type is one of
\* the ten infrastructure types or is None or an integer.
C8_DropIffInfra ==
    pc \in {"L429", "ready"} /\ ~disc.unreachable =>
        \A j \in 1..(disc.i - 1) :
            Dropped(j) <=> InfraOrNonSymbolic(disc.objList[j].pointType)

\* The family the type token of an entry stands for.
FamilyOfToken(pointType) ==
    IF Contains(Str(pointType), Chars.binary) THEN "Boolean"
    ELSE IF Contains(Str(pointType), Chars.multiState) THEN "Enum"
    ELSE "Numeric"

KeptEntry(e) == Kept(e.pointType)
IsPointRead(r) == r.fn = "readMultiple"

\* C9: after a successful discovery self.points holds exactly one Point per
\* retained inventory entry, in inventory order, each built from exactly one
\* readMultiple request for that entry, and each of the family its type token
\* stands for.
C9_OnePointPerKeptEntry ==
    pc = "ready" /\ ~disc.unreachable =>
        LET kept == SelectSeq(disc.objList, KeptEntry)
            reads == SelectSeq(netlog, IsPointRead)
        IN /\ Len(points) = Len(kept)
           /\ Len(reads) = Len(kept)
           /\ \A j \in 1..Len(kept) :
                /\ points[j].type = kept[j].pointType
                /\ points[j].address = kept[j].pointAddr
                /\ points[j].family = FamilyOfToken(kept[j].pointType)
                /\ points[j].name = pointsDF[j].pointName
                /\ reads[j].pointType = kept[j].pointType
                /\ reads[j].pointAddr = kept[j].pointAddr

C9_Witness ==
    /\ pc = "ready"
    /\ ~disc.unreachable
    /\ Len(disc.objList) = 2
    /\ Len(points) = 2
    /\ points[1].family = "Boolean"
    /\ points[2].family = "Enum"

=============================================================================
